---- MODULE Spec2Model ----
(***************************************************************************)
(* LocalRAG Pro desktop front end: the App shell (folder drop, indexing    *)
(* state, licence), the Sidebar drop zone and the ChatPanel (send, save,   *)
(* export), together with the backend commands they invoke over the Tauri  *)
(* bridge.  Each React event handler and each promise continuation is one  *)
(* action.  A handler runs against the state of the render that is on      *)
(* screen, and a state update is rendered before the next event is         *)
(* delivered, so the value a handler closes over is the current state.     *)
(***************************************************************************)
EXTENDS Naturals, Sequences, FiniteSets

(* ------------------------------ bounds -------------------------------- *)

\* Drop events delivered to the Sidebar.
MaxDrops ==
  2

\* chat_query invocations (sends with a non-empty input).
MaxSends ==
  2

\* Clicks on Save or Export.
MaxSaves ==
  1

(* --------------------------- JavaScript values ------------------------ *)

Undefined ==
  [t |-> "undefined"]

Null ==
  [t |-> "null"]

Str(s) ==
  [t |-> "string", v |-> s]

\* A non-string, non-null value (an object or a number).
Other ==
  [t |-> "object"]

\* JavaScript truthiness of the values above: undefined, null and "" are falsy.
Truthy(x) ==
  CASE x.t = "string" -> x.v # ""
    [] x.t = "object" -> TRUE
    [] OTHER -> FALSE

(* ------------------------------ inputs -------------------------------- *)

Folders ==
  {"/docs/A", "/docs/B"}

\* e.dataTransfer.files?.[0]?.path : a path, or undefined when nothing
\* with a path was dropped.
DropPaths ==
  {Str(f) : f \in Folders} \cup {Undefined}

\* Pass-level failures the backend escalates to the caller.
PassErrors ==
  {"DimensionMismatch", "StoreCorrupt"}

\* What get_license may resolve to.
LicenseValues ==
  {Null, Str(""), Str("KEY-1"), Other}

VARIABLES
  mounted,         \* App: the mount effect has run
  selectedFolder,  \* App state: string | null
  indexed,         \* App state: boolean
  license,         \* App state: string | null
  initCall,        \* plugin_init_app: "none" | "pending" | "ok" | "err"
  licenseCall,     \* get_license:     "none" | "pending" | "ok" | "err"
  indexCalls,      \* index_folder invocations, in the order issued
  passes,          \* backend: the indexing passes that are running
  drops,           \* drop events delivered so far
  lastDrop,        \* path carried by the latest drop event
  alerts,          \* window.alert dialogs shown, in order
  console,         \* console.error lines, in order
  messages,        \* ChatPanel state: Message[]
  input,           \* ChatPanel state: string
  chatCalls,       \* chat_query invocations, in the order issued
  saveCalls,       \* save_chat invocations in flight
  exportCalls,     \* export_chat invocations in flight
  clicks           \* clicks on Save or Export so far

appVars ==
  <<mounted, selectedFolder, indexed, license, initCall, licenseCall,
    indexCalls, passes, drops, lastDrop>>

chatVars ==
  <<messages, input, chatCalls, saveCalls, exportCalls, clicks>>

vars ==
  <<appVars, chatVars, alerts, console>>

(* ------------------------------- App ---------------------------------- *)

Init ==
  /\ mounted = FALSE
  /\ selectedFolder = Null
  /\ indexed = FALSE
  /\ license = Null
  /\ initCall = "none"
  /\ licenseCall = "none"
  /\ indexCalls = <<>>
  /\ passes = {}
  /\ drops = 0
  /\ lastDrop = Undefined
  /\ alerts = <<>>
  /\ console = <<>>
  /\ messages = <<>>
  /\ input = ""
  /\ chatCalls = <<>>
  /\ saveCalls = <<>>
  /\ exportCalls = <<>>
  /\ clicks = 0

\* useEffect(() => {...}, []): both commands are issued back to back, neither
\* is awaited.
Mount ==
  /\ ~mounted
  /\ mounted' = TRUE
  /\ initCall' = "pending"
  /\ licenseCall' = "pending"
  /\ UNCHANGED <<selectedFolder, indexed, license, indexCalls, passes, drops,
                 lastDrop, alerts, console, chatVars>>

\* invoke('plugin_init_app') settles; a failure goes to console.error.
InitAppSettled(ok) ==
  /\ initCall = "pending"
  /\ initCall' = IF ok THEN "ok" ELSE "err"
  /\ console' = IF ok THEN console ELSE Append(console, "plugin_init_app")
  /\ UNCHANGED <<mounted, selectedFolder, indexed, license, licenseCall,
                 indexCalls, passes, drops, lastDrop, alerts, chatVars>>

\* .then((l) => { if (l && typeof l === 'string' && l.length > 0) setLicense(l) })
GetLicenseResolved(l) ==
  /\ licenseCall = "pending"
  /\ licenseCall' = "ok"
  /\ license' = IF Truthy(l) /\ l.t = "string" /\ l.v # "" THEN l ELSE license
  /\ UNCHANGED <<mounted, selectedFolder, indexed, initCall, indexCalls, passes,
                 drops, lastDrop, alerts, console, chatVars>>

\* .catch(() => {})
GetLicenseRejected ==
  /\ licenseCall = "pending"
  /\ licenseCall' = "err"
  /\ UNCHANGED <<mounted, selectedFolder, indexed, license, initCall, indexCalls,
                 passes, drops, lastDrop, alerts, console, chatVars>>

(* ------------- backend: indexing passes (index_folder command) -------- *)

\* Outcome of a pass for its caller: "ok", or the pass-level failure.
PassOutcomes ==
  {"ok"} \cup PassErrors

\* Outcome the caller of an abandoned pass may see: the command returns
\* normally, or it reports that its pass was cancelled.
AbandonOutcomes ==
  {"ok", "Cancelled"}

\* Variant of StartOrAttach that starts a pass for every request.
StartAlways(ps, folder, id) ==
  ps \cup {[id |-> id, root |-> folder]}

\* The passes running after a request for `folder` arrives (`id` names the
\* pass the request would start): a pass already running on that root is kept
\* and the request attaches to it; otherwise the root has changed, the running
\* pass is abandoned and a new pass starts against the new root.
StartOrAttach(ps, folder, id) ==
  IF \E p \in ps : p.root = folder
    THEN ps
    ELSE {[id |-> id, root |-> folder]}

\* The pass a request for `folder` waits on.
PassOf(ps, folder) ==
  (CHOOSE p \in ps : p.root = folder).id

\* Calls whose pass is no longer running are detached from it (pass 0).
Detach(calls, ps) ==
  [i \in DOMAIN calls |->
     IF calls[i].status = "pending" /\ calls[i].pass \notin {p.id : p \in ps}
       THEN [calls[i] EXCEPT !.pass = 0]
       ELSE calls[i]]

\* Every request waiting on pass `pid` gets the pass's outcome.
Settle(calls, pid, outcome) ==
  [i \in DOMAIN calls |->
     IF calls[i].status = "pending" /\ calls[i].pass = pid
       THEN [calls[i] EXCEPT !.status = IF outcome = "ok" THEN "ok" ELSE "err",
                             !.error = IF outcome = "ok" THEN "" ELSE outcome]
       ELSE calls[i]]

\* A running pass completes, or fails as a whole.
PassFinished(p, outcome) ==
  /\ p \in passes
  /\ passes' = passes \ {p}
  /\ indexCalls' = Settle(indexCalls, p.id, outcome)
  /\ UNCHANGED <<mounted, selectedFolder, indexed, license, initCall,
                 licenseCall, drops, lastDrop, alerts, console, chatVars>>

\* The command of an abandoned pass returns to its caller.
AbandonedReturned(i, outcome) ==
  /\ i \in DOMAIN indexCalls
  /\ indexCalls[i].status = "pending"
  /\ indexCalls[i].pass = 0
  /\ indexCalls' = [indexCalls EXCEPT
                      ![i].status = IF outcome = "ok" THEN "ok" ELSE "err",
                      ![i].error = IF outcome = "ok" THEN "" ELSE outcome]
  /\ UNCHANGED <<mounted, selectedFolder, indexed, license, initCall,
                 licenseCall, passes, drops, lastDrop, alerts, console, chatVars>>

(* ------------------------- App.handleDrop ----------------------------- *)

\* invoke('index_folder', { folder }) : the call is recorded as in flight and
\* the backend takes the request.
InvokeIndexFolder(folder) ==
  LET id == Len(indexCalls) + 1
      ps == StartOrAttach(passes, folder, id)
  IN /\ passes' = ps
     /\ indexCalls' = Append(Detach(indexCalls, ps),
                             [folder |-> folder, pass |-> PassOf(ps, folder),
                              status |-> "pending", error |-> "", doneAt |-> 0])

\* Variant of HandleDrop that leaves out setIndexed(false).
HandleDropNoReset(path) ==
  /\ selectedFolder' = Str(path)
  /\ indexed' = indexed
  /\ InvokeIndexFolder(path)

\* handleDrop up to its await.
HandleDrop(path) ==
  /\ selectedFolder' = Str(path)
  /\ indexed' = FALSE
  /\ InvokeIndexFolder(path)

\* Sidebar.onDrop: const path = files?.[0]?.path; if (path) onFolderDrop(path)
OnDrop(path) ==
  /\ mounted
  /\ drops < MaxDrops
  /\ drops' = drops + 1
  /\ lastDrop' = path
  /\ IF Truthy(path)
       THEN HandleDrop(path.v)
       ELSE UNCHANGED <<selectedFolder, indexed, indexCalls, passes>>
  /\ UNCHANGED <<mounted, license, initCall, licenseCall, alerts, console,
                 chatVars>>

\* handleDrop after its await, the call having succeeded: setIndexed(true)
IndexFolderResolved(i) ==
  /\ i \in DOMAIN indexCalls
  /\ indexCalls[i].status = "ok"
  /\ indexed' = TRUE
  /\ indexCalls' = [indexCalls EXCEPT ![i].status = "resolved",
                                      ![i].doneAt = Len(indexCalls)]
  /\ UNCHANGED <<mounted, selectedFolder, license, initCall, licenseCall,
                 passes, drops, lastDrop, alerts, console, chatVars>>

\* Variant of IndexFolderRejected in which setIndexed(true) also runs on the
\* failure path (as if it sat in a finally block).
IndexFolderRejectedMarks(i) ==
  /\ i \in DOMAIN indexCalls
  /\ indexCalls[i].status = "err"
  /\ indexed' = TRUE
  /\ console' = Append(console, indexCalls[i].error)
  /\ alerts' = Append(alerts, <<"Indexing failed: ", indexCalls[i].error>>)
  /\ indexCalls' = [indexCalls EXCEPT ![i].status = "rejected",
                                      ![i].doneAt = Len(indexCalls)]
  /\ UNCHANGED <<mounted, selectedFolder, license, initCall, licenseCall,
                 passes, drops, lastDrop, chatVars>>

\* handleDrop's catch: console.error(e); alert('Indexing failed: ' + String(e))
IndexFolderRejected(i) ==
  /\ i \in DOMAIN indexCalls
  /\ indexCalls[i].status = "err"
  /\ console' = Append(console, indexCalls[i].error)
  /\ alerts' = Append(alerts, <<"Indexing failed: ", indexCalls[i].error>>)
  /\ indexCalls' = [indexCalls EXCEPT ![i].status = "rejected",
                                      ![i].doneAt = Len(indexCalls)]
  /\ UNCHANGED <<mounted, selectedFolder, indexed, license, initCall,
                 licenseCall, passes, drops, lastDrop, chatVars>>

NextApp ==
  \/ Mount
  \/ \E ok \in BOOLEAN : InitAppSettled(ok)
  \/ \E l \in LicenseValues : GetLicenseResolved(l)
  \/ GetLicenseRejected
  \/ \E path \in DropPaths : OnDrop(path)
  \/ \E p \in passes, o \in PassOutcomes : PassFinished(p, o)
  \/ \E i \in DOMAIN indexCalls, o \in AbandonOutcomes : AbandonedReturned(i, o)
  \/ \E i \in DOMAIN indexCalls : IndexFolderResolved(i)
  \/ \E i \in DOMAIN indexCalls : IndexFolderRejected(i)

SpecApp ==
  Init /\ [][NextApp]_vars

(* ----------------------------- ChatPanel ------------------------------ *)

\* What the user may type into the input box.
Texts ==
  {"capital of France?", "what is Rust?"}

\* What chat_query may resolve to: nothing, or an object whose answer is
\* the empty string or a completion.
ChatResponses ==
  {Null} \cup {[t |-> "object", answer |-> Str(a)] : a \in {"", "Paris."}}

\* How chat_query may fail.
ChatErrors ==
  {"ProviderError", "Timeout"}

\* What export_chat may resolve to.
ExportResults ==
  {Null, [t |-> "object", path |-> Str("/exports/chat.md")]}

\* A Message.  Its id and timestamp are read off the wall clock and are only
\* rendered (React key, time label): no handler reads them, so a message is
\* modelled by its role and content.
Message(role, content) ==
  [role |-> role, content |-> content]

\* (resp as any)?.answer
AnswerOf(resp) ==
  IF resp.t \in {"null", "undefined"} THEN Undefined ELSE resp.answer

\* (resp as any)?.answer || 'No answer.'
AnswerText(resp) ==
  IF Truthy(AnswerOf(resp)) THEN AnswerOf(resp).v ELSE "No answer."

\* onChange: setInput(e.target.value)
SetInput(text) ==
  /\ input # text
  /\ input' = text
  /\ UNCHANGED <<appVars, alerts, console, messages, chatCalls, saveCalls,
                 exportCalls, clicks>>

\* Variant of SendQuery that passes the list with the new message in it.
SendQueryWithNew ==
  LET userMsg == Message("user", input)
  IN /\ messages' = Append(messages, userMsg)
     /\ input' = ""
     /\ chatCalls' = Append(chatCalls,
                            [query |-> userMsg.content,
                             history |-> Append(messages, userMsg),
                             status |-> "pending", resp |-> Undefined,
                             replyAt |-> 0])

\* send() up to its await: the user message is appended, the input cleared,
\* and chat_query is invoked with the messages of the current render.
SendQuery ==
  LET userMsg == Message("user", input)
  IN /\ messages' = Append(messages, userMsg)
     /\ input' = ""
     /\ chatCalls' = Append(chatCalls,
                            [query |-> userMsg.content, history |-> messages,
                             status |-> "pending", resp |-> Undefined,
                             replyAt |-> 0])

\* send(): if (!input) return
Send ==
  /\ Len(chatCalls) < MaxSends
  /\ IF input = ""
       THEN UNCHANGED <<messages, input, chatCalls>>
       ELSE SendQuery
  /\ UNCHANGED <<appVars, alerts, console, saveCalls, exportCalls, clicks>>

\* Variant of ChatQueryResolved that writes setMessages([...messages, userMsg,
\* assistant]) from the values send() closed over, not from the current list.
ChatQueryResolvedStale(i, resp) ==
  LET assistant == Message("assistant", AnswerText(resp))
      userMsg == Message("user", chatCalls[i].query)
  IN /\ i \in DOMAIN chatCalls
     /\ chatCalls[i].status = "pending"
     /\ messages' = Append(Append(chatCalls[i].history, userMsg), assistant)
     /\ chatCalls' = [chatCalls EXCEPT ![i].status = "resolved",
                                       ![i].resp = resp,
                                       ![i].replyAt = Len(chatCalls[i].history) + 2]
     /\ UNCHANGED <<appVars, alerts, console, input, saveCalls, exportCalls,
                    clicks>>

\* send() after its await, chat_query having resolved to resp.
ChatQueryResolved(i, resp) ==
  LET assistant == Message("assistant", AnswerText(resp))
  IN /\ i \in DOMAIN chatCalls
     /\ chatCalls[i].status = "pending"
     /\ messages' = Append(messages, assistant)
     /\ chatCalls' = [chatCalls EXCEPT ![i].status = "resolved",
                                       ![i].resp = resp,
                                       ![i].replyAt = Len(messages) + 1]
     /\ UNCHANGED <<appVars, alerts, console, input, saveCalls, exportCalls,
                    clicks>>

\* chat_query rejects: the await throws, send() has no catch, nothing is appended.
ChatQueryRejected(i, e) ==
  /\ i \in DOMAIN chatCalls
  /\ chatCalls[i].status = "pending"
  /\ e \in ChatErrors
  /\ chatCalls' = [chatCalls EXCEPT ![i].status = "rejected"]
  /\ UNCHANGED <<appVars, alerts, console, messages, input, saveCalls,
                 exportCalls, clicks>>

\* Remove the i-th element of a sequence.
RemoveAt(q, i) ==
  SubSeq(q, 1, i - 1) \o SubSeq(q, i + 1, Len(q))

\* saveChat() up to its await: invoke('save_chat', { messages })
SaveChat ==
  /\ clicks < MaxSaves
  /\ clicks' = clicks + 1
  /\ saveCalls' = Append(saveCalls, [messages |-> messages])
  /\ UNCHANGED <<appVars, alerts, console, messages, input, chatCalls,
                 exportCalls>>

\* saveChat() after its await: alert('Saved')
SaveChatResolved(i) ==
  /\ i \in DOMAIN saveCalls
  /\ saveCalls' = RemoveAt(saveCalls, i)
  /\ alerts' = Append(alerts, <<"Saved", "">>)
  /\ UNCHANGED <<appVars, console, messages, input, chatCalls, exportCalls,
                 clicks>>

\* save_chat rejects: the await throws and nobody catches it.
SaveChatRejected(i) ==
  /\ i \in DOMAIN saveCalls
  /\ saveCalls' = RemoveAt(saveCalls, i)
  /\ UNCHANGED <<appVars, alerts, console, messages, input, chatCalls,
                 exportCalls, clicks>>

\* exportChat() up to its await: invoke('export_chat', { messages })
ExportChat ==
  /\ clicks < MaxSaves
  /\ clicks' = clicks + 1
  /\ exportCalls' = Append(exportCalls, [messages |-> messages])
  /\ UNCHANGED <<appVars, alerts, console, messages, input, chatCalls,
                 saveCalls>>

\* exportChat() after its await: alert('Exported to: ' + (result as any).path);
\* reading .path of null throws before the alert, and nobody catches it.
ExportChatResolved(i, result) ==
  /\ i \in DOMAIN exportCalls
  /\ exportCalls' = RemoveAt(exportCalls, i)
  /\ alerts' = IF result.t = "object"
                 THEN Append(alerts, <<"Exported to: ", result.path.v>>)
                 ELSE alerts
  /\ UNCHANGED <<appVars, console, messages, input, chatCalls, saveCalls,
                 clicks>>

\* export_chat rejects: the await throws and nobody catches it.
ExportChatRejected(i) ==
  /\ i \in DOMAIN exportCalls
  /\ exportCalls' = RemoveAt(exportCalls, i)
  /\ UNCHANGED <<appVars, alerts, console, messages, input, chatCalls,
                 saveCalls, clicks>>

\* The conversation: typing, sending, and chat_query settling.
NextChat ==
  \/ \E text \in Texts \cup {""} : SetInput(text)
  \/ Send
  \/ \E i \in DOMAIN chatCalls, resp \in ChatResponses : ChatQueryResolved(i, resp)
  \/ \E i \in DOMAIN chatCalls, e \in ChatErrors : ChatQueryRejected(i, e)

SpecChat ==
  Init /\ [][NextChat]_vars

\* Saving and exporting the conversation.
NextChatIO ==
  \/ SaveChat
  \/ \E i \in DOMAIN saveCalls : SaveChatResolved(i)
  \/ \E i \in DOMAIN saveCalls : SaveChatRejected(i)
  \/ ExportChat
  \/ \E i \in DOMAIN exportCalls, r \in ExportResults : ExportChatResolved(i, r)
  \/ \E i \in DOMAIN exportCalls : ExportChatRejected(i)

\* The whole ChatPanel.
SpecChatIO ==
  Init /\ [][NextChat \/ NextChatIO]_vars

(* ============================== claims ================================ *)

IsPrefix(p, q) ==
  /\ Len(p) <= Len(q)
  /\ SubSeq(q, 1, Len(p)) = p

\* The step issues a backend command other than plugin_init_app.
IssuesOtherCommand ==
  \/ licenseCall = "none" /\ licenseCall' = "pending"
  \/ Len(indexCalls') > Len(indexCalls)
  \/ Len(chatCalls') > Len(chatCalls)
  \/ Len(saveCalls') > Len(saveCalls)
  \/ Len(exportCalls') > Len(exportCalls)

\* C1: whenever indexed is true, an index_folder call for the currently
\* selected folder has completed successfully since that folder was last
\* dropped; the outcome of a call for a folder that has since been replaced
\* is not applied.
C1_StaleResultDiscarded ==
  indexed =>
    \E i \in DOMAIN indexCalls :
      /\ selectedFolder = Str(indexCalls[i].folder)
      /\ indexCalls[i].status = "resolved"
      /\ indexCalls[i].doneAt = Len(indexCalls)

\* C2: every chat_query response that carries an answer string, the empty
\* string included, yields an assistant message whose content is that string.
C2_AnswerVerbatim ==
  \A i \in DOMAIN chatCalls :
    (/\ chatCalls[i].status = "resolved"
     /\ chatCalls[i].resp.t = "object"
     /\ chatCalls[i].resp.answer.t = "string")
    => /\ chatCalls[i].replyAt \in DOMAIN messages
       /\ messages[chatCalls[i].replyAt] =
            Message("assistant", chatCalls[i].resp.answer.v)

\* C3: the history passed to chat_query is the message list as it was just
\* before send appended its user message, without the new query; the new
\* query is the query argument; and the arguments of a call never change
\* afterwards.
C3_HistoryIsPriorTurns ==
  [][/\ Len(chatCalls') = Len(chatCalls) + 1 =>
          LET c == chatCalls'[Len(chatCalls')]
          IN /\ c.history = messages
             /\ c.query = input
             /\ messages' = Append(c.history, Message("user", c.query))
     /\ Len(chatCalls') >= Len(chatCalls)
     /\ \A i \in DOMAIN chatCalls :
          /\ chatCalls'[i].history = chatCalls[i].history
          /\ chatCalls'[i].query = chatCalls[i].query]_vars

\* A second chat_query was sent with a non-empty history while the first was
\* unanswered, and messages were appended after it.
C3_Witness ==
  /\ Len(chatCalls) = 2
  /\ Len(chatCalls[2].history) = 1
  /\ Len(messages) = 4
  /\ messages[1] = chatCalls[2].history[1]

\* C4: at most one indexing pass runs per folder root; a request for a root
\* whose pass is running starts no new pass and waits on that pass, and every
\* request waiting on a pass is settled in the step that ends the pass.
C4_OnePassPerRoot ==
  /\ [](\A p, q \in passes : p.root = q.root => p = q)
  /\ [](\A i \in DOMAIN indexCalls :
          (indexCalls[i].status = "pending" /\ indexCalls[i].pass # 0)
          => \E p \in passes : /\ p.id = indexCalls[i].pass
                               /\ p.root = indexCalls[i].folder)
  /\ [][Len(indexCalls') = Len(indexCalls) + 1 =>
          LET c == indexCalls'[Len(indexCalls')]
          IN (\E p \in passes : p.root = c.folder)
             => /\ passes' = passes
                /\ \E p \in passes : p.root = c.folder /\ c.pass = p.id]_vars

\* The same folder was dropped twice while its pass ran, and both requests
\* were settled together by that one pass.
C4_Witness ==
  /\ Len(indexCalls) >= 2
  /\ indexCalls[1].folder = indexCalls[2].folder
  /\ indexCalls[1].pass = 1
  /\ indexCalls[2].pass = 1
  /\ indexCalls[1].status = "ok"
  /\ indexCalls[2].status = "ok"
  /\ passes = {}

\* C5: a drop that carries a path P sets selectedFolder to P, resets indexed
\* and issues exactly one index_folder command for P; a drop without a path
\* issues no command and leaves selectedFolder and indexed as they were; and
\* index_folder is issued by drops only.
C5_DropStartsIndexing ==
  [][/\ drops' = drops + 1 =>
          IF Truthy(lastDrop')
            THEN /\ selectedFolder' = lastDrop'
                 /\ indexed' = FALSE
                 /\ Len(indexCalls') = Len(indexCalls) + 1
                 /\ indexCalls'[Len(indexCalls')].folder = lastDrop'.v
                 /\ indexCalls'[Len(indexCalls')].status = "pending"
            ELSE UNCHANGED <<selectedFolder, indexed, indexCalls, passes>>
     /\ Len(indexCalls') # Len(indexCalls) => drops' = drops + 1]_vars

\* A folder was dropped and indexed, then dropped again: it is selected, not
\* indexed, and two commands were issued; or a drop without a path followed
\* and changed nothing.
C5_Witness ==
  /\ drops = 2
  /\ Len(indexCalls) = 2
  /\ indexCalls[1].status = "resolved"
  /\ indexCalls[2].status = "pending"
  /\ selectedFolder = lastDrop
  /\ ~indexed

\* C6: a failed index_folder call is reported (alert) and leaves indexed and
\* selectedFolder as they were, selectedFolder being the dropped path when
\* no drop followed; indexed is only ever true after some call succeeded.
C6_FailureNeverMarksIndexed ==
  /\ [](indexed => \E i \in DOMAIN indexCalls : indexCalls[i].status = "resolved")
  /\ [][\A i \in DOMAIN indexCalls :
          (indexCalls[i].status = "err" /\ indexCalls'[i].status = "rejected")
          => /\ indexed' = indexed
             /\ selectedFolder' = selectedFolder
             /\ (i = Len(indexCalls)
                   => selectedFolder' = Str(indexCalls[i].folder))
             /\ alerts' = Append(alerts, <<"Indexing failed: ",
                                           indexCalls[i].error>>)]_vars

\* A call failed, the folder was dropped again afterwards, and the new call
\* succeeded and marked it indexed.
C6_Witness ==
  /\ Len(indexCalls) = 2
  /\ indexCalls[1].status = "rejected"
  /\ indexCalls[1].doneAt = 1
  /\ indexCalls[2].status = "resolved"
  /\ selectedFolder = Str(indexCalls[2].folder)
  /\ indexed
  /\ Len(alerts) = 1

\* C7: plugin_init_app has completed before any other backend command is
\* issued.
C7_InitCompletesFirst ==
  [][IssuesOtherCommand => initCall \in {"ok", "err"}]_vars

\* C8: the message list is append-only.  A send with an empty input appends
\* nothing and issues no command; a send with a non-empty input appends one
\* user message with that content, clears the input and issues one
\* chat_query; a resolved chat_query appends one assistant message; and no
\* step removes, reorders or overwrites a message.
C8_MessagesAppendOnly ==
  [][/\ IsPrefix(messages, messages')
     /\ Len(messages') <= Len(messages) + 1
     /\ Len(chatCalls') \in {Len(chatCalls), Len(chatCalls) + 1}
     /\ input = "" =>
          /\ Len(chatCalls') = Len(chatCalls)
          /\ Len(messages') > Len(messages)
               => messages'[Len(messages')].role = "assistant"
     /\ Len(chatCalls') = Len(chatCalls) + 1 =>
          /\ input # ""
          /\ messages' = Append(messages, Message("user", input))
          /\ input' = ""
          /\ chatCalls'[Len(chatCalls')].query = input
     /\ (Len(messages') > Len(messages)
           /\ messages'[Len(messages')].role = "user")
          => Len(chatCalls') = Len(chatCalls) + 1
     /\ \A i \in DOMAIN chatCalls :
          (chatCalls[i].status = "pending" /\ chatCalls'[i].status = "resolved")
          => /\ Len(messages') = Len(messages) + 1
             /\ messages'[Len(messages')].role = "assistant"
             /\ chatCalls'[i].replyAt = Len(messages')]_vars

\* Two chat_query calls were in flight at once, both were answered, and the
\* conversation was saved or exported along the way: all four messages are
\* there, in the order they were appended.
C8_Witness ==
  /\ Len(chatCalls) = 2
  /\ Len(chatCalls[2].history) = 1
  /\ chatCalls[1].status = "resolved"
  /\ chatCalls[2].status = "resolved"
  /\ chatCalls[2].replyAt = 3
  /\ chatCalls[1].replyAt = 4
  /\ Len(messages) = 4
  /\ messages[1].content = chatCalls[1].query
  /\ messages[2].content = chatCalls[2].query
  /\ messages[1].content # messages[2].content
  /\ clicks = 1

\* C9: every chat_query call the backend has settled, by returning or by
\* failing, has an assistant message appended for it.
C9_EverySendAnswered ==
  \A i \in DOMAIN chatCalls :
    chatCalls[i].status \in {"resolved", "rejected"}
    => /\ chatCalls[i].replyAt \in DOMAIN messages
       /\ messages[chatCalls[i].replyAt].role = "assistant"

====
